---- MODULE Spec2Model ----
(***************************************************************************)
(* SoundGrabber (src/audio_recorder.py): the recording session of          *)
(* AdvancedAudioRecorderApp and the post-processing pipeline               *)
(* save_audio_file runs when a session stops.                               *)
(*                                                                         *)
(* Representation of audio.  An int32 array of shape (frames, 2) is kept    *)
(* run-length encoded: a sequence of runs [f |-> <<left, right>>, n |-> k], *)
(* k >= 1 consecutive frames holding the same pair of samples.  Frame      *)
(* indices are 0-based as in the source.  An array on which fades have     *)
(* been applied is the record [runs, fin, fout]: the samples of runs with  *)
(* the linear ramp of save_audio_file applied to the first fin frames and  *)
(* the square-root ramp of apply_fade_int32 applied to the last fout       *)
(* frames.  Sample values are int32; every operation on them is computed   *)
(* with the width numpy uses.                                              *)
(***************************************************************************)
EXTENDS Integers, Sequences, FiniteSets, TLC

----------------------------------------------------------------------------
(* Program constants *)

\* np.iinfo(np.int32).max
MaxInt32 == 2147483647

MinInt32 == -MaxInt32 - 1

\* self.fs
fs == 48000

\* self.channels
channels == 2

\* trim_silence_int32(..., threshold_db=-60, min_silence_ms=2)
threshold_db == -60

min_silence_ms == 2

\* find_first_transient(..., threshold_db=-20, ...)
transient_threshold_db == -20

\* int(0.02 * self.fs) and int(0.04 * self.fs): 0.02 = 2/100, 0.04 = 4/100
fade_in_percent == 2

fade_out_percent == 4

\* atexit.register(self.cleanup_on_exit) in __init__, and again in main
atexit_registrations == 2

----------------------------------------------------------------------------
(* Bounds of the model *)

\* chunks of a captured buffer handed to the pipeline (SpecPipeline)
MaxChunks == 3

\* chunks the driver delivers while one session records (Spec)
MaxSessionChunks == 2

\* files in the output folder (Spec)
MaxFiles == 2

----------------------------------------------------------------------------
(* int32 arithmetic *)

Min(S) == CHOOSE x \in S : \A y \in S : x <= y

Max(S) == CHOOSE x \in S : \A y \in S : x >= y

MinOf(a, b) == IF a < b THEN a ELSE b

\* np.abs on an int32 array: the negation wraps, so abs(-2^31) = -2^31
AbsInt32(x) == IF x = MinInt32 THEN MinInt32 ELSE IF x < 0 THEN -x ELSE x

\* the two 16-bit halves of the two's complement pattern of x
Lo16(x) == x % 65536

Hi16(x) == (x \div 65536) % 65536

\* (h * l) mod 2^16 for 16-bit h, l, by bytes (every product stays small)
MulMod16(h, l) ==
  LET h0 == h % 256
      h1 == h \div 256
      l0 == l % 256
      l1 == l \div 256
  IN  (h0 * l0 + 256 * ((h1 * l0 + h0 * l1) % 256)) % 65536

\* x**2 on an int32 array: the square modulo 2^32, as the pair <<high half
\* (signed, -32768..32767), low half (0..65535)>>: value = hi * 65536 + lo
SquareInt32(x) ==
  LET l  == Lo16(x)
      h  == Hi16(x)
      l0 == l % 256
      l1 == l \div 256
      t  == l0 * l0 + ((2 * l1 * l0) % 256) * 256
      lo == t % 65536
      c  == t \div 65536
      hi == (c + (2 * l1 * l0) \div 256 + l1 * l1 + 2 * MulMod16(h, l)) % 65536
  IN  << IF hi >= 32768 THEN hi - 65536 ELSE hi, lo >>

\* 10 ** (db / 20) * np.iinfo(np.int32).max for db a negative multiple of 20,
\* rounded toward zero: 10 ** (-k) * MaxInt32
Pow10(k) == IF k = 0 THEN 1 ELSE IF k = 1 THEN 10 ELSE IF k = 2 THEN 100 ELSE 1000

DbToLinear(db) == MaxInt32 \div Pow10((-db) \div 20)

----------------------------------------------------------------------------
(* Run-length encoded arrays *)

RECURSIVE NumFrames(_)
\* audio_array.shape[0]
NumFrames(a) == IF a = << >> THEN 0 ELSE Head(a).n + NumFrames(Tail(a))

\* index of the first frame of run k, and one past its last frame
RunStart(a, k) == NumFrames(SubSeq(a, 1, k - 1))

RunEnd(a, k) == RunStart(a, k) + a[k].n

\* the frame at 0-based index i
FrameAt(a, i) == a[CHOOSE k \in 1..Len(a) : RunStart(a, k) <= i /\ i < RunEnd(a, k)].f

RECURSIVE Canon(_)
\* the same array with adjacent runs of equal frames merged
Canon(a) ==
  IF Len(a) <= 1 THEN a
  ELSE IF a[1].f = a[2].f
       THEN Canon(<< [f |-> a[1].f, n |-> a[1].n + a[2].n] >> \o SubSeq(a, 3, Len(a)))
       ELSE << a[1] >> \o Canon(Tail(a))

RECURSIVE SliceFrom(_, _, _, _)
SliceFrom(a, pos, s, e) ==
  IF a = << >> THEN << >>
  ELSE LET lo == IF s > pos THEN s ELSE pos
           hi == MinOf(e, pos + Head(a).n)
           rest == SliceFrom(Tail(a), pos + Head(a).n, s, e)
       IN  IF hi > lo THEN << [f |-> Head(a).f, n |-> hi - lo] >> \o rest ELSE rest

\* audio_array[s:e]
Slice(a, s, e) == SliceFrom(a, 0, s, e)

RECURSIVE Concatenate(_)
\* np.concatenate(self.audio_data, axis=0): a new array holding the chunks'
\* frames in list order
Concatenate(chunks) ==
  IF chunks = << >> THEN << >> ELSE Head(chunks) \o Concatenate(Tail(chunks))

----------------------------------------------------------------------------
(* Frames the driver delivers *)

ZeroFrame == << 0, 0 >>

\* below the silence threshold, not zero
QuietFrame == << 1000, -1000 >>

\* left channel exactly at the silence threshold
LoudFrame == << DbToLinear(threshold_db), 0 >>

\* right channel only, negative
RightFrame == << 0, -DbToLinear(threshold_db) >>

\* a full-scale negative sample
\* a frame above -20 dBFS on channel 0
HotFrame == << 1000000000, 0 >>

FullNegFrame == << MinInt32, 0 >>

\* louder than 2^24, with samples float32 cannot hold
OddLoudFrame == << 16777219, -16777217 >>

\* full scale in both directions
FullScaleFrame == << MaxInt32, -MaxInt32 >>

----------------------------------------------------------------------------
(* Level gate: rms = np.sqrt(np.mean(audio_array**2)); rms < 1e-6 *)

RECURSIVE SumSquares(_)
\* the sum of audio_array**2 over all frames and channels; the squares are
\* int32 (modulo 2^32), np.mean adds them in float64 (exact below 2^53).
\* The sum is the pair <<H, L>>: value = H * 65536 + L
SumSquares(a) ==
  IF a = << >> THEN << 0, 0 >>
  ELSE LET l == SquareInt32(Head(a).f[1])
           r == SquareInt32(Head(a).f[2])
           rest == SumSquares(Tail(a))
       IN  << rest[1] + Head(a).n * (l[1] + r[1]), rest[2] + Head(a).n * (l[2] + r[2]) >>

\* the comparison turned round: only a negative sum counts as no signal
rms_compared_the_wrong_way(a) ==
  LET s == SumSquares(a)
  IN  s[1] + s[2] \div 65536 < 0

\* rms < 1e-6: the mean is an integer divided by the sample count, so below
\* 10^12 samples sqrt(mean) < 1e-6 exactly when the sum is 0 (a negative
\* sum gives nan, and nan < 1e-6 is False)
rms_below_epsilon(a) ==
  LET s == SumSquares(a)
  IN  s[2] % 65536 = 0 /\ s[1] + s[2] \div 65536 = 0

----------------------------------------------------------------------------
(* trim_silence_int32 *)

threshold_linear == DbToLinear(threshold_db)

\* int(min_silence_ms * self.fs / 1000)
min_silence_samples == (min_silence_ms * fs) \div 1000

\* one row of np.all(np.abs(audio_array) < threshold_linear, axis=1)
is_silent(frame) == \A c \in 1..channels : AbsInt32(frame[c]) < threshold_linear

NonSilentRuns(a) == { k \in 1..Len(a) : ~is_silent(a[k].f) }

\* np.argmax(~is_silent): the first True, 0 when there is none
ArgmaxNonSilent(a) ==
  IF NonSilentRuns(a) = {} THEN 0 ELSE RunStart(a, Min(NonSilentRuns(a)))

\* np.argmax(~is_silent[::-1])
ArgmaxNonSilentReversed(a) ==
  IF NonSilentRuns(a) = {} THEN 0 ELSE NumFrames(a) - RunEnd(a, Max(NonSilentRuns(a)))

StartTrim(a) ==
  IF ArgmaxNonSilent(a) = 0 /\ is_silent(FrameAt(a, 0)) THEN NumFrames(a)
  ELSE ArgmaxNonSilent(a)

\* the end of the content taken one frame short
EndTrimExcludingLastFrame(a) ==
  MinOf(NumFrames(a) - ArgmaxNonSilentReversed(a) + min_silence_samples, NumFrames(a)) - 1

\* the guard band added without the limit at the end of the array
EndTrimPastTheEnd(a) ==
  NumFrames(a) - ArgmaxNonSilentReversed(a) + min_silence_samples

EndTrim(a) ==
  MinOf(NumFrames(a) - ArgmaxNonSilentReversed(a) + min_silence_samples, NumFrames(a))

\* the trimmer without its guard for a track entirely below the threshold
trim_silence_without_fallback(a) ==
  [audio |-> Slice(a, StartTrim(a), EndTrim(a)),
   start_trim |-> StartTrim(a), end_trim |-> EndTrim(a)]

\* returns (trimmed_audio, start_trim, end_trim); trimmed_audio is a view
trim_silence_int32(a) ==
  IF StartTrim(a) >= EndTrim(a)
  THEN [audio |-> a, start_trim |-> 0, end_trim |-> NumFrames(a)]
  ELSE [audio |-> Slice(a, StartTrim(a), EndTrim(a)),
        start_trim |-> StartTrim(a), end_trim |-> EndTrim(a)]

----------------------------------------------------------------------------
(* find_first_transient *)

RECURSIVE Energy(_)
\* np.sum(audio[:, 0]**2): int32 squares added in int64, as <<H, L>>
Energy(a) ==
  IF a = << >> THEN << 0, 0 >>
  ELSE LET l == SquareInt32(Head(a).f[1])
           rest == Energy(Tail(a))
       IN  << rest[1] + Head(a).n * l[1], rest[2] + Head(a).n * l[2] >>

\* threshold_linear**2 for threshold_db = -20, the float64
\* 46116860141324216 = T32 * 2^32 + T16 * 2^16 + T0
TransientT32 == 10737418

TransientT16 == 15073

TransientT0 == 18360

\* energy > threshold_linear**2
EnergyExceeds(a) ==
  LET e   == Energy(a)
      e16 == e[1] + e[2] \div 65536
      e32 == e16 \div 65536
      e1  == e16 % 65536
      e0  == e[2] % 65536
  IN  \/ e32 > TransientT32
      \/ e32 = TransientT32 /\ e1 > TransientT16
      \/ e32 = TransientT32 /\ e1 = TransientT16 /\ e0 > TransientT0

\* the comparison made frame by frame: the indices of the frames above the level
TransientsFrameByFrame(a) ==
  LET above == { k \in 1..Len(a) : \/ a[k].f[1] > DbToLinear(transient_threshold_db)
                                    \/ a[k].f[1] < -DbToLinear(transient_threshold_db) }
  IN  IF above = {} THEN << >> ELSE << RunStart(a, Min(above)) >>

\* np.flatnonzero of the scalar comparison: [0] when it is True, [] otherwise
Transients(a) == IF EnergyExceeds(a) THEN << 0 >> ELSE << >>

find_first_transient(a) == IF Len(Transients(a)) > 0 THEN Transients(a)[1] ELSE 0

----------------------------------------------------------------------------
(* Fades *)

\* int(0.02 * self.fs)
fade_duration == (fade_in_percent * fs) \div 100

\* int(0.04 * self.fs)
fade_out_duration == (fade_out_percent * fs) \div 100

Plain(runs) == [runs |-> runs, fin |-> 0, fout |-> 0]

NoArray == Plain(<< >>)

\* if start_trim == 0 and transient_start == 0
FadeInCondition(start_trim, transient_start) == start_trim = 0 /\ transient_start = 0

\* final_audio[:fade_duration] = (final_audio[:fade_duration] * fade_in): the
\* ramp has fade_duration rows, and a shorter final_audio does not broadcast
FadeInRaises(final) == NumFrames(final) < fade_duration

\* if end_trim == audio_array.shape[0]
FadeOutCondition(end_trim, raw) == end_trim = NumFrames(raw)

\* the faded segment returned instead of the whole faded copy
apply_fade_returning_segment(audio, fade_length, is_fade_in) ==
  LET len == MinOf(NumFrames(audio.runs), fade_length)
  IN  IF is_fade_in
      THEN [audio EXCEPT !.runs = Slice(audio.runs, 0, len), !.fin = len]
      ELSE [audio EXCEPT !.runs = Slice(audio.runs, NumFrames(audio.runs) - len,
                                        NumFrames(audio.runs)),
                         !.fout = len]

\* apply_fade_int32(audio, fade_length, fade_in): a faded copy; the length
\* is clamped to the audio's
apply_fade_int32(audio, fade_length, is_fade_in) ==
  LET len == MinOf(NumFrames(audio.runs), fade_length)
  IN  IF is_fade_in THEN [audio EXCEPT !.fin = len] ELSE [audio EXCEPT !.fout = len]

----------------------------------------------------------------------------
(* Sample values of a fade-out: astype(np.float32), *= fade, astype(np.int32) *)

\* float32 has a 24-bit significand: integers up to 2^24 are exact
TwoTo24 == 16777216

RECURSIVE Float32Unit(_)
\* the spacing of float32 values at the magnitude m
Float32Unit(m) == IF m < TwoTo24 THEN 1 ELSE 2 * Float32Unit(m \div 2)

\* astype(np.float32) of the magnitude m <= 2^31 - 1: round to nearest, ties to
\* the even significand.  The value is q * u, and it is 2^31 when q * u does
\* not fit
Float32Of(m) ==
  LET u == Float32Unit(m)
      q == m \div u
      r == m % u
      up == 2 * r > u \/ (2 * r = u /\ q % 2 = 1)
  IN  [q |-> IF up THEN q + 1 ELSE q, u |-> u]

IsTwoTo31(fl) == fl.q > MaxInt32 \div fl.u

\* astype(np.int32) of the float32 value sign * fl: the values a build can give.
\* +2^31 is out of the range of int32 and the conversion is undefined: the
\* x86-64 instruction gives -2^31, the arm64 instruction saturates at 2^31 - 1
Int32Of(positive, fl) ==
  IF IsTwoTo31(fl)
  THEN IF positive THEN { MinInt32, MaxInt32 } ELSE { MinInt32 }
  ELSE { IF positive THEN fl.q * fl.u ELSE -(fl.q * fl.u) }

\* the sample x after faded_segment *= fade where the ramp is 1.0 (the first
\* frame of a fade-out: np.sqrt(np.linspace(1, 0, n))[0])
FadedAtRampOne(x) ==
  IF x = MinInt32 THEN { MinInt32 }
  ELSE Int32Of(x >= 0, Float32Of(IF x < 0 THEN -x ELSE x))

\* the frame of the faded array where the fade-out starts
FadeOutStart(faded) == NumFrames(faded.runs) - faded.fout

----------------------------------------------------------------------------
(* File names: sequences of characters *)

DigitChars == << "0", "1", "2", "3", "4", "5", "6", "7", "8", "9" >>

\* self.settings['recording_name'], the default of load_settings
recording_name == << "r", "e", "c", "o", "r", "d", "i", "n", "g" >>

DotWav == << ".", "w", "a", "v" >>

\* f.startswith(p), f.endswith(p), f[k:]
StartsWith(f, p) == Len(f) >= Len(p) /\ SubSeq(f, 1, Len(p)) = p

EndsWith(f, p) == Len(f) >= Len(p) /\ SubSeq(f, Len(f) - Len(p) + 1, Len(f)) = p

DropFirst(f, k) == SubSeq(f, k + 1, Len(f))

\* num_str.isdigit()
IsDigit(str) == str # << >> /\ \A i \in 1..Len(str) : \E d \in 1..10 : DigitChars[d] = str[i]

DigitValue(ch) == (CHOOSE d \in 1..10 : DigitChars[d] = ch) - 1

RECURSIVE ParseInt(_)
\* int(num_str)
ParseInt(str) ==
  IF str = << >> THEN 0
  ELSE 10 * ParseInt(SubSeq(str, 1, Len(str) - 1)) + DigitValue(str[Len(str)])

RECURSIVE Decimal(_)
Decimal(n) ==
  IF n < 10 THEN << DigitChars[n + 1] >>
  ELSE Decimal(n \div 10) \o << DigitChars[(n % 10) + 1] >>

\* f"{number:02d}"
Format02d(n) == IF n < 10 THEN << "0" >> \o Decimal(n) ELSE Decimal(n)

\* the files of os.listdir(output_folder) the comprehension keeps
existing_files(listing) ==
  { f \in listing : /\ StartsWith(f, recording_name)
                    /\ EndsWith(f, DotWav)
                    /\ StartsWith(DropFirst(f, Len(recording_name)), << "_" >>) }

\* the slice one character short of removing ".wav"
num_str_keeping_the_dot(f) == SubSeq(f, Len(recording_name) + 2, Len(f) - 3)

\* filename[len(recording_name)+1:-4]
num_str(f) == SubSeq(f, Len(recording_name) + 2, Len(f) - 4)

used_numbers(listing) ==
  { ParseInt(num_str(f)) : f \in { g \in existing_files(listing) : IsDigit(num_str(g)) } }

RECURSIVE FirstFreeFrom(_, _)
\* number = 1; while number in used_numbers: number += 1
FirstFreeFrom(number, used) ==
  IF number \in used THEN FirstFreeFrom(number + 1, used) ELSE number

FirstFree(used) == FirstFreeFrom(1, used)

\* f"{recording_name}_{number:02d}.wav"
Filename(number) == recording_name \o << "_" >> \o Format02d(number) \o DotWav

next_filename(listing) == Filename(FirstFree(used_numbers(listing)))

----------------------------------------------------------------------------
(* save_audio_file *)

Stages == { "concat", "gate", "trim", "transient", "fade", "listdir", "write" }

\* the record of one run of save_audio_file: its locals and how it ended
NoRun ==
  [ outcome |-> "none", stage |-> "none", raw |-> << >>,
    start_trim |-> -1, end_trim |-> -1, transient_start |-> -1,
    fade_in |-> FALSE, fade_out |-> FALSE,
    audio_array |-> NoArray, final_audio |-> NoArray,
    listing |-> {}, filename |-> << >> ]

\* the run r ended by an exception raised at stage at
Failed(at, r) == [r EXCEPT !.outcome = "error", !.stage = at]

\* a handler placed round the write alone
CaughtAtWriteOnly(stage) == stage = "write"

\* except Exception as e: the handler encloses the whole body
Caught(stage) == stage \in Stages

\* the chunks sharing memory with audio_array: the ramp written in place
\* (its first value is 0) shows in self.audio_data
AudioDataAliased(chunks, audio_array) ==
  IF audio_array.fin > 0
  THEN << << [f |-> ZeroFrame, n |-> 1] >>
          \o Slice(audio_array.runs, 1, NumFrames(audio_array.runs)) >>
  ELSE chunks

\* np.concatenate copies the chunks (each chunk is already indata.copy()), so
\* what save_audio_file edits in place never reaches self.audio_data
AudioDataAfterSave(chunks, audio_array) == chunks

\* lines 745-788: the file name, the write and the check that the file exists
WriteStage(r, listing, dir_exists, fault) ==
  IF fault = "listdir" \/ ~dir_exists THEN Failed("listdir", r)
  ELSE IF fault = "write"
       THEN Failed("write", [r EXCEPT !.listing = listing, !.filename = next_filename(listing)])
       ELSE [r EXCEPT !.listing = listing, !.filename = next_filename(listing),
                      !.outcome = "saved", !.stage = "write"]

\* lines 733-739: the fade-out, on final_audio after the fade-in decision
FadeOutStage(r, raw, faded, end_trim) ==
  IF FadeOutCondition(end_trim, raw)
  THEN [r EXCEPT !.fade_out = TRUE,
                 !.final_audio = apply_fade_int32(faded, fade_out_duration, FALSE)]
  ELSE [r EXCEPT !.fade_out = FALSE, !.final_audio = faded]

\* lines 723-731: the fade-in, written through the view final_audio into
\* audio_array (final_audio starts at frame 0 of audio_array when it applies)
FadeInStage(r, raw, final, start_trim, transient_start, end_trim, fault) ==
  IF FadeInCondition(start_trim, transient_start)
  THEN IF fault = "fade" \/ FadeInRaises(final) THEN Failed("fade", r)
       ELSE FadeOutStage([r EXCEPT !.fade_in = TRUE,
                                   !.audio_array = [Plain(raw) EXCEPT !.fin = fade_duration]],
                         raw, [Plain(final) EXCEPT !.fin = fade_duration], end_trim)
  ELSE IF fault = "fade" THEN Failed("fade", r)
       ELSE FadeOutStage(r, raw, Plain(final), end_trim)

\* lines 715-721: transient_start and final_audio = trimmed_audio[transient_start:]
TransientStage(r, raw, trimmed, start_trim, end_trim, transient_start, fault) ==
  FadeInStage([r EXCEPT !.transient_start = transient_start], raw,
              Slice(trimmed, transient_start, NumFrames(trimmed)),
              start_trim, transient_start, end_trim, fault)

\* lines 710-713: the silence trimmer
TrimStage(r, raw, trim, fault) ==
  IF fault = "transient"
  THEN Failed("transient", [r EXCEPT !.start_trim = trim.start_trim, !.end_trim = trim.end_trim])
  ELSE TransientStage([r EXCEPT !.start_trim = trim.start_trim, !.end_trim = trim.end_trim],
                      raw, trim.audio, trim.start_trim, trim.end_trim,
                      find_first_transient(trim.audio), fault)

\* lines 675-708: the level gate
GateStage(r, raw, fault) ==
  IF fault = "gate" THEN Failed("gate", r)
  ELSE IF rms_below_epsilon(raw) THEN [r EXCEPT !.outcome = "no_signal", !.stage = "gate"]
  ELSE IF fault = "trim" THEN Failed("trim", r)
  ELSE TrimStage(r, raw, trim_silence_int32(raw), fault)

\* the stages that follow the concatenation
AfterConcatenate(raw, fault) ==
  GateStage([NoRun EXCEPT !.raw = raw, !.audio_array = Plain(raw)], raw, fault)

\* a run that ended early (the gate's return, an exception) writes nothing
Finish(r, listing, dir_exists, fault) ==
  IF r.outcome = "none" THEN WriteStage(r, listing, dir_exists, fault) ELSE r

\* save_audio_file on self.audio_data = chunks, with os.listdir(output_folder)
\* = listing when dir_exists; fault names the stage at which an exception the
\* surroundings cause (out of memory, the disk, AppKit) is raised, or "none"
save_audio_file(chunks, listing, dir_exists, fault) ==
  IF chunks = << >> THEN [NoRun EXCEPT !.outcome = "no_data"]
  ELSE IF fault = "concat" THEN Failed("concat", NoRun)
  ELSE Finish(AfterConcatenate(Concatenate(chunks), fault), listing, dir_exists, fault)

\* stop_recording without its two assignments self.audio_data = []
AudioDataKept(chunks) == chunks

\* stop_recording: self.audio_data = [], after the save and in the finally clause
AudioDataAfterStop(chunks) == << >>

\* whether the run's exception leaves save_audio_file
Propagates(r) == r.outcome = "error" /\ ~Caught(r.stage)

----------------------------------------------------------------------------
(* State *)

VARIABLES
  recording,           \* self.recording
  stream,              \* self.stream: "None", or the InputStream, "active" or "stopped"
  audio_data,          \* self.audio_data: the list of captured chunks
  pc,                  \* where the main thread is inside a handler, "idle" between handlers
  folder_exists,       \* os.path.exists(output_folder)
  files,               \* os.listdir(output_folder)
  last_recorded_file,  \* self.last_recorded_file, << >> for None
  run,                 \* the last run of save_audio_file
  prev_run,            \* the run before it, when the pipeline is run again on the same chunks
  saves,               \* calls of save_audio_file since start_recording last emptied audio_data
  app,                 \* "running", "quitting" (quit_app was chosen) or "exited"
  cleanups_left,       \* calls of cleanup_on_exit the exit still has to make
  heard,               \* the chunks of this session whose callback found self.recording
                       \* True, in arrival order; the session ends with stop_recording
  current_input_device,    \* what get_current_input_device() returns
  current_output_device,   \* what get_current_output_device() returns
  previous_input_device,   \* self.previous_input_device
  previous_output_device   \* self.previous_output_device

vars == << recording, stream, audio_data, pc, folder_exists, files,
           last_recorded_file, run, prev_run, saves, app, cleanups_left, heard,
           current_input_device, current_output_device,
           previous_input_device, previous_output_device >>

\* the system's devices and what the application remembers of them
device_vars == << current_input_device, current_output_device,
                  previous_input_device, previous_output_device >>

\* what only quit_app and the exit change
exit_vars == << app, cleanups_left >>

----------------------------------------------------------------------------
(* What the driver delivers *)

\* indata.copy(): one block of n equal frames
Chunk(frame, n) == << [f |-> frame, n |-> n] >>

ChunkSizes == { 1, min_silence_samples, fade_duration }

PipelineChunks ==
  { Chunk(fr, n) : fr \in { ZeroFrame, QuietFrame, LoudFrame, RightFrame, FullNegFrame },
                   n \in ChunkSizes }

SessionChunks ==
  { Chunk(ZeroFrame, fade_duration), Chunk(LoudFrame, fade_duration), Chunk(LoudFrame, 1) }

ChunkLists(S, n) == UNION { [1..m -> S] : m \in 1..n }

\* files other programs or the user put into the output folder
ForeignFiles ==
  { recording_name \o << "_", "1" >> \o DotWav,
    recording_name \o << "_", "0", "3" >> \o DotWav,
    recording_name \o << "_", "x" >> \o DotWav }

----------------------------------------------------------------------------
(* Devices *)

\* the devices the user had selected when the application was launched
UserInputDevice == "MacBook Pro Microphone"
UserOutputDevice == "MacBook Pro Speakers"

\* the devices start_recording selects
LoopbackInputDevice == "BlackHole 2ch"
LoopbackOutputDevice == "SoundGrabber"

\* switch_input_device(device) / switch_to_device(device) behind
\* "if self.previous_..._device:": the system's device afterwards
Restored(previous, current) == IF previous # "None" THEN previous ELSE current

\* the two restoring calls of stop_recording and of cleanup_on_exit
RestoreDevices ==
  /\ current_input_device' = Restored(previous_input_device, current_input_device)
  /\ current_output_device' = Restored(previous_output_device, current_output_device)
  /\ UNCHANGED << previous_input_device, previous_output_device >>

\* the chunk kept whatever the recording flag says
AppendsWhileStreaming(flag) == TRUE

\* if self.recording: (audio_callback)
Appends(flag) == flag

----------------------------------------------------------------------------
(* save_audio_file as a step: everything it changes but self.audio_data *)

SaveEffects(r) ==
  /\ run' = r
  /\ recording' = IF r.outcome = "no_signal" THEN FALSE ELSE recording
  /\ files' = IF r.outcome = "saved" THEN files \cup { r.filename } ELSE files
  /\ last_recorded_file' = IF r.outcome = "saved" THEN r.filename ELSE last_recorded_file

----------------------------------------------------------------------------
(* The application *)

Init ==
  /\ recording = FALSE
  /\ stream = "None"
  /\ audio_data = << >>
  /\ pc = "idle"
  /\ folder_exists = TRUE
  /\ files = {}
  /\ last_recorded_file = << >>
  /\ run = NoRun
  /\ prev_run = NoRun
  /\ saves = 0
  /\ app = "running"
  /\ cleanups_left = 0
  /\ heard = << >>
  /\ current_input_device = UserInputDevice
  /\ current_output_device = UserOutputDevice
  /\ previous_input_device = "None"
  /\ previous_output_device = "None"

\* toggle_recording -> start_recording, up to the start sound.  A missing
\* output folder is created or the handler returns (the user's answer); the
\* stream is opened and started, or an exception ends the handler
start_recording ==
  /\ pc = "idle" /\ ~recording
  /\ app = "running"
  /\ Cardinality(files) < MaxFiles
  /\ \/ /\ ~folder_exists
        /\ UNCHANGED << recording, stream, audio_data, pc, folder_exists, files,
                        last_recorded_file, run, prev_run, saves, heard >>
        /\ UNCHANGED device_vars
     \/ /\ folder_exists' = TRUE
        /\ previous_input_device' = current_input_device
        /\ previous_output_device' = current_output_device
        /\ audio_data' = << >>
        /\ heard' = << >>
        /\ current_input_device' = LoopbackInputDevice
        /\ current_output_device' = LoopbackOutputDevice
        /\ run' = NoRun
        /\ saves' = 0
        /\ \/ stream' = "active" /\ pc' = "starting"
           \/ stream' \in { stream, "stopped" } /\ pc' = "idle"
        /\ UNCHANGED << recording, files, last_recorded_file, prev_run >>
  /\ UNCHANGED exit_vars

\* start_recording after the start sound: self.recording = True
start_recording_finish ==
  /\ pc = "starting"
  /\ recording' = TRUE
  /\ pc' = "idle"
  /\ UNCHANGED << stream, audio_data, folder_exists, files, last_recorded_file, run, prev_run,
                  saves, app, cleanups_left, heard >>
  /\ UNCHANGED device_vars

\* the driver's thread: audio_callback(indata, ...)
audio_callback ==
  /\ stream = "active"
  /\ app # "exited"
  /\ Appends(recording) => Len(audio_data) < MaxSessionChunks
  /\ \E chunk \in SessionChunks :
       /\ audio_data' = IF Appends(recording) THEN Append(audio_data, chunk) ELSE audio_data
       /\ heard' = IF recording THEN Append(heard, chunk) ELSE heard
  /\ UNCHANGED << recording, stream, pc, folder_exists, files, last_recorded_file, run, prev_run,
                  saves, app, cleanups_left >>
  /\ UNCHANGED device_vars

\* stop_recording without self.recording = False
stop_recording_keeping_flag ==
  /\ pc = "idle" /\ recording
  /\ app = "running"
  /\ pc' = "stopping"
  /\ UNCHANGED << recording, stream, audio_data, folder_exists, files, last_recorded_file,
                  run, prev_run, saves, app, cleanups_left, heard >>
  /\ UNCHANGED device_vars

\* toggle_recording -> stop_recording: self.recording = False
stop_recording ==
  /\ pc = "idle" /\ recording
  /\ app = "running"
  /\ recording' = FALSE
  /\ pc' = "stopping"
  /\ UNCHANGED << stream, audio_data, folder_exists, files, last_recorded_file, run, prev_run,
                  saves, app, cleanups_left, heard >>
  /\ UNCHANGED device_vars

\* stop_recording going on to the save with the stream left running
stop_recording_leaving_stream ==
  /\ pc = "stopping"
  /\ pc' = "saving"
  /\ UNCHANGED << recording, stream, audio_data, folder_exists, files, last_recorded_file,
                  run, prev_run, saves, app, cleanups_left, heard >>
  /\ UNCHANGED device_vars

\* stop_recording: self.stream.stop(); self.stream.close().  When they raise,
\* the except and finally clauses end the handler
stop_recording_stream ==
  /\ pc = "stopping"
  /\ \/ /\ stream' = IF stream = "None" THEN "None" ELSE "stopped"
        /\ pc' = "saving"
        /\ UNCHANGED << audio_data, heard >>
        /\ UNCHANGED device_vars
     \/ /\ stream # "None"
        /\ stream' = "None"
        /\ audio_data' = AudioDataAfterStop(audio_data)
        /\ heard' = << >>
        /\ RestoreDevices
        /\ pc' = "idle"
  /\ UNCHANGED << recording, folder_exists, files, last_recorded_file, run, prev_run,
                  saves, app, cleanups_left >>

\* stop_recording from "if self.audio_data:" to the end of its finally clause
stop_recording_save ==
  /\ pc = "saving"
  /\ \/ /\ audio_data # << >>
        /\ \E fault \in Stages \cup { "none" } :
             SaveEffects(save_audio_file(audio_data, files, folder_exists, fault))
        /\ saves' = saves + 1
     \/ /\ audio_data = << >>
        /\ UNCHANGED << recording, files, last_recorded_file, run, saves >>
  /\ audio_data' = AudioDataAfterStop(audio_data)
  /\ heard' = << >>
  /\ RestoreDevices
  /\ stream' = "None"
  /\ pc' = "idle"
  /\ UNCHANGED << folder_exists, prev_run, app, cleanups_left >>

\* the 5 s timer
check_recording_state ==
  /\ pc = "idle"
  /\ app = "running"
  /\ recording' = IF recording THEN stream = "active" ELSE stream = "active"
  /\ UNCHANGED << stream, audio_data, pc, folder_exists, files, last_recorded_file, run, prev_run,
                  saves, app, cleanups_left, heard >>
  /\ UNCHANGED device_vars

\* the device goes away: the stream is no longer active
stream_fails ==
  /\ stream = "active"
  /\ app # "exited"
  /\ stream' = "stopped"
  /\ UNCHANGED << recording, audio_data, pc, folder_exists, files, last_recorded_file, run, prev_run,
                  saves, app, cleanups_left, heard >>
  /\ UNCHANGED device_vars

\* the surroundings: files appear in and vanish from the output folder
create_file ==
  /\ folder_exists
  /\ app = "running"
  /\ Cardinality(files) < MaxFiles
  /\ \E f \in ForeignFiles \ files : files' = files \cup { f }
  /\ UNCHANGED << recording, stream, audio_data, pc, folder_exists, last_recorded_file, run, prev_run,
                  saves, app, cleanups_left, heard >>
  /\ UNCHANGED device_vars

delete_file ==
  /\ app = "running"
  /\ \E f \in files : files' = files \ { f }
  /\ UNCHANGED << recording, stream, audio_data, pc, folder_exists, last_recorded_file, run, prev_run,
                  saves, app, cleanups_left, heard >>
  /\ UNCHANGED device_vars

remove_folder ==
  /\ folder_exists
  /\ app = "running"
  /\ folder_exists' = FALSE
  /\ files' = {}
  /\ UNCHANGED << recording, stream, audio_data, pc, last_recorded_file, run, prev_run,
                  saves, app, cleanups_left, heard >>
  /\ UNCHANGED device_vars

\* cleanup_on_exit: stop_recording when self.recording (its steps follow, and
\* leave self.stream None), otherwise self.stream.close() on a stream there is
CleanupOnExit ==
  IF recording
  THEN recording' = FALSE /\ pc' = "stopping" /\ UNCHANGED stream /\ UNCHANGED device_vars
  ELSE /\ stream' = IF stream = "None" THEN "None" ELSE "stopped"
       /\ RestoreDevices
       /\ UNCHANGED << recording, pc >>

\* the Quit menu item: cleanup_on_exit, then rumps.quit_application(), which
\* ends the process through the handlers registered with atexit
quit_app ==
  /\ pc = "idle"
  /\ app = "running"
  /\ app' = "quitting"
  /\ cleanups_left' = atexit_registrations
  /\ CleanupOnExit
  /\ UNCHANGED << audio_data, folder_exists, files, last_recorded_file, run, prev_run, saves,
                  heard >>

\* cleanup_on_exit as an atexit handler
cleanup_on_exit ==
  /\ pc = "idle"
  /\ app = "quitting"
  /\ cleanups_left > 0
  /\ cleanups_left' = cleanups_left - 1
  /\ CleanupOnExit
  /\ UNCHANGED << audio_data, folder_exists, files, last_recorded_file, run, prev_run, saves, app,
                  heard >>

\* the process is gone, and with it self.audio_data
exit ==
  /\ pc = "idle"
  /\ app = "quitting"
  /\ cleanups_left = 0
  /\ app' = "exited"
  /\ UNCHANGED << recording, stream, audio_data, pc, folder_exists, files, last_recorded_file,
                  run, prev_run, saves, cleanups_left, heard >>
  /\ UNCHANGED device_vars

Next ==
  \/ start_recording
  \/ start_recording_finish
  \/ audio_callback
  \/ stop_recording
  \/ stop_recording_stream
  \/ stop_recording_save
  \/ check_recording_state
  \/ stream_fails
  \/ create_file
  \/ delete_file
  \/ remove_folder
  \/ quit_app
  \/ cleanup_on_exit
  \/ exit

Spec == Init /\ [][Next]_vars

----------------------------------------------------------------------------
(* The pipeline on a captured buffer, run and run again on the same chunks *)

InitPipeline ==
  /\ recording = FALSE
  /\ stream = "stopped"
  /\ audio_data \in ChunkLists(PipelineChunks, MaxChunks)
  /\ pc = "save"
  /\ folder_exists = TRUE
  /\ files = { Filename(1) }
  /\ last_recorded_file = Filename(1)
  /\ run = NoRun
  /\ prev_run = NoRun
  /\ saves = 0
  /\ app = "running"
  /\ cleanups_left = 0
  /\ heard = audio_data
  /\ current_input_device = LoopbackInputDevice
  /\ current_output_device = LoopbackOutputDevice
  /\ previous_input_device = UserInputDevice
  /\ previous_output_device = UserOutputDevice

run_pipeline ==
  /\ pc = "save"
  /\ LET r == save_audio_file(audio_data, files, folder_exists, "none")
     IN  SaveEffects(r) /\ audio_data' = AudioDataAfterSave(audio_data, r.audio_array)
  /\ pc' = "rerun"
  /\ saves' = saves + 1
  /\ UNCHANGED << stream, folder_exists, prev_run, app, cleanups_left, heard >>
  /\ UNCHANGED device_vars

rerun_pipeline ==
  /\ pc = "rerun"
  /\ prev_run' = run
  /\ LET r == save_audio_file(audio_data, files, folder_exists, "none")
     IN  SaveEffects(r) /\ audio_data' = AudioDataAfterSave(audio_data, r.audio_array)
  /\ pc' = "done"
  /\ saves' = saves + 1
  /\ UNCHANGED << stream, folder_exists, app, cleanups_left, heard >>
  /\ UNCHANGED device_vars

NextPipeline == run_pipeline \/ rerun_pipeline

SpecPipeline == InitPipeline /\ [][NextPipeline]_vars

----------------------------------------------------------------------------
(* The pipeline on buffers that hold frames above the transient threshold *)

TransientChunks ==
  { Chunk(fr, n) : fr \in { QuietFrame, LoudFrame, HotFrame }, n \in { 1, fade_duration } }

InitTransient ==
  /\ recording = FALSE
  /\ stream = "stopped"
  /\ audio_data \in ChunkLists(TransientChunks, MaxChunks)
  /\ pc = "save"
  /\ folder_exists = TRUE
  /\ files = {}
  /\ last_recorded_file = << >>
  /\ run = NoRun
  /\ prev_run = NoRun
  /\ saves = 0
  /\ app = "running"
  /\ cleanups_left = 0
  /\ heard = audio_data
  /\ current_input_device = LoopbackInputDevice
  /\ current_output_device = LoopbackOutputDevice
  /\ previous_input_device = UserInputDevice
  /\ previous_output_device = UserOutputDevice

SpecTransient == InitTransient /\ [][NextPipeline]_vars

----------------------------------------------------------------------------
(* The pipeline on buffers whose samples float32 cannot hold *)

FadeChunks ==
  { Chunk(fr, n) : fr \in { LoudFrame, OddLoudFrame, FullScaleFrame }, n \in { 1, fade_duration } }

InitFade ==
  /\ recording = FALSE
  /\ stream = "stopped"
  /\ audio_data \in ChunkLists(FadeChunks, MaxChunks)
  /\ pc = "save"
  /\ folder_exists = TRUE
  /\ files = {}
  /\ last_recorded_file = << >>
  /\ run = NoRun
  /\ prev_run = NoRun
  /\ saves = 0
  /\ app = "running"
  /\ cleanups_left = 0
  /\ heard = audio_data
  /\ current_input_device = LoopbackInputDevice
  /\ current_output_device = LoopbackOutputDevice
  /\ previous_input_device = UserInputDevice
  /\ previous_output_device = UserOutputDevice

SpecFade == InitFade /\ [][NextPipeline]_vars

----------------------------------------------------------------------------
(* The terms of the specification *)

\* a frame is silent iff every channel's absolute sample value is below the
\* threshold
BelowThreshold(frame) ==
  \A c \in 1..channels : -threshold_linear < frame[c] /\ frame[c] < threshold_linear

AllBelowThreshold(a) == \A k \in 1..Len(a) : BelowThreshold(a[k].f)

AllZero(a) == \A k \in 1..Len(a) : a[k].f = ZeroFrame

LoudRuns(a) == { k \in 1..Len(a) : ~BelowThreshold(a[k].f) }

\* the non-silent frames form exactly one contiguous region [a, b)
SingleRegion(a) ==
  /\ LoudRuns(a) # {}
  /\ \A k \in Min(LoudRuns(a))..Max(LoudRuns(a)) : k \in LoudRuns(a)

RegionStart(a) == RunStart(a, Min(LoudRuns(a)))

RegionEnd(a) == RunEnd(a, Max(LoudRuns(a)))

LastFrame(a) == a[Len(a)].f

\* the buffer the pipeline is run on
Captured == Concatenate(audio_data)

\* the run got as far as the silence trimmer's result
Trimmed(r) == r.start_trim # -1

----------------------------------------------------------------------------
(* Claims *)

\* C1: for every buffer whose frames are all below the silence threshold,
\* trim_silence_int32 returns the buffer unchanged with offsets
\* (0, frame_count), never an empty buffer; so does the run of the pipeline
\* that trims such a buffer.
C1_SilentBufferReturnedUnchanged ==
  AllBelowThreshold(Captured) =>
    /\ trim_silence_int32(Captured).audio = Captured
    /\ trim_silence_int32(Captured).start_trim = 0
    /\ trim_silence_int32(Captured).end_trim = NumFrames(Captured)
    /\ NumFrames(trim_silence_int32(Captured).audio) > 0
    /\ Trimmed(run) => run.start_trim = 0 /\ run.end_trim = NumFrames(Captured)

C1_Witness ==
  /\ run.outcome = "saved"
  /\ AllBelowThreshold(run.raw)
  /\ run.start_trim = 0
  /\ run.end_trim = NumFrames(run.raw)

\* C2: for every buffer whose non-silent frames form one contiguous region
\* [a, b), trim_silence_int32 returns start_offset = a and an end_offset with
\* b <= end_offset <= min(b + guard_frames, frame_count), and the returned
\* buffer is frames [start_offset, end_offset) of the input.
C2_SingleRegionOffsets ==
  SingleRegion(Captured) =>
    /\ trim_silence_int32(Captured).start_trim = RegionStart(Captured)
    /\ RegionEnd(Captured) <= trim_silence_int32(Captured).end_trim
    /\ trim_silence_int32(Captured).end_trim
         <= MinOf(RegionEnd(Captured) + min_silence_samples, NumFrames(Captured))
    /\ Canon(trim_silence_int32(Captured).audio)
         = Canon(Slice(Captured, trim_silence_int32(Captured).start_trim,
                       trim_silence_int32(Captured).end_trim))

\* C3: the fade-in is applied iff start_offset = 0 and the transient offset is
\* 0: a buffer whose first frame is non-silent gets the fade-in, a buffer with
\* leading silence followed by non-silent content does not.
C3_FadeInIffUntrimmedHead ==
  pc # "save" =>
    /\ Trimmed(run) => (run.fade_in <=> (run.start_trim = 0 /\ run.transient_start = 0))
    /\ ~BelowThreshold(FrameAt(Captured, 0)) => run.fade_in
    /\ (BelowThreshold(FrameAt(Captured, 0)) /\ ~AllBelowThreshold(Captured)) => ~run.fade_in

\* C4: the fade-out is applied iff the trimmer's end_offset equals the frame
\* count of the raw buffer.
C4_FadeOutIffUntrimmedTail ==
  Trimmed(run) => (run.fade_out <=> run.end_trim = NumFrames(run.raw))

\* C5: a raw buffer with some non-silent frame that ends in silence gets no
\* fade-out; a raw buffer whose last frame is non-silent gets the fade-out.
C5_FadeOutByLastFrame ==
  pc # "save" =>
    /\ (~AllBelowThreshold(Captured) /\ BelowThreshold(LastFrame(Captured))) => ~run.fade_out
    /\ ~BelowThreshold(LastFrame(Captured)) => run.fade_out

\* C6: a captured buffer of all-zero samples stops save_audio_file at the
\* level gate with the no-signal outcome: nothing is trimmed, faded or
\* written, the output folder holds the files it held and last_recorded_file
\* is what it was.
C6_ZeroBufferStopsAtGate ==
  (pc # "save" /\ AllZero(Captured)) =>
    /\ run.outcome = "no_signal"
    /\ ~Trimmed(run) /\ run.end_trim = -1 /\ run.transient_start = -1
    /\ ~run.fade_in /\ ~run.fade_out
    /\ run.final_audio = NoArray
    /\ run.filename = << >>
    /\ files = { Filename(1) }
    /\ last_recorded_file = Filename(1)

C6_Witness == pc = "done" /\ AllZero(Captured) /\ run.outcome = "no_signal"

\* C7: the number chosen for the new recording is the smallest n >= 1 such that
\* recording_NN.wav (n zero-padded to two digits) is not in the folder.
C7_SmallestUnusedTwoDigitName ==
  run.outcome = "saved" =>
    run.filename = Filename(Min({ n \in 1..(Cardinality(run.listing) + 1) :
                                    Filename(n) \notin run.listing }))

\* C8: the path save_audio_file writes to never names a file that was in the
\* folder when it was listed.
C8_NoExistingFileOverwritten ==
  run.filename # << >> => run.filename \notin run.listing

C8_Witness ==
  /\ run.outcome = "saved"
  /\ Filename(1) \in run.listing
  /\ Cardinality(run.listing) >= 2

C10_StopRecordingAlwaysFinishes ==
  [][ (pc \in { "stopping", "saving" } /\ pc' = "idle") =>
        /\ ~Propagates(run')
        /\ recording' = FALSE
        /\ audio_data' = << >>
        /\ stream' = "None" ]_vars

C10_Witness ==
  /\ pc = "idle"
  /\ run.outcome = "error" /\ run.stage = "fade"
  /\ ~recording /\ audio_data = << >> /\ stream = "None"

----------------------------------------------------------------------------
(* Claims about the stages' contracts and the sessions *)

\* a frame whose channel 0 sample squared exceeds the square of the -20 dBFS
\* level
AboveTransientLevel(frame) ==
  \/ frame[1] > DbToLinear(transient_threshold_db)
  \/ frame[1] < -DbToLinear(transient_threshold_db)

TransientRuns(a) == { k \in 1..Len(a) : AboveTransientLevel(a[k].f) }

\* the index of the first such frame, 0 when there is none
FirstTransientFrame(a) ==
  IF TransientRuns(a) = {} THEN 0 ELSE RunStart(a, Min(TransientRuns(a)))

\* the frames final_audio has when the fades are reached
FramesToFade(r) == r.end_trim - r.start_trim - r.transient_start

\* C11: save_audio_file starts only after the capture stream has been stopped
\* and closed, and while the main thread is in the save no callback of the
\* driver's thread adds a chunk to audio_data.
C11_SaveAfterStreamStopped ==
  [][ pc = "saving" =>
        /\ stream # "active"
        /\ pc' = "saving" => audio_data' = audio_data ]_vars

C11_Witness == pc = "saving" /\ stream = "stopped" /\ audio_data # << >>

\* C12: a captured buffer of fewer than 100 frames is discarded: no file is
\* written, no alert is raised and no error is reported, also when the buffer
\* is not silent.
C12_ShortBufferDiscarded ==
  (pc # "save" /\ NumFrames(Captured) < 100) =>
    /\ run.outcome \notin { "saved", "no_signal", "error" }
    /\ files = { Filename(1) }

\* C13: when a fade applies to a buffer shorter than the fade, the fade length
\* is the buffer's length, the pipeline completes and the file is written.
C13_FadeClampedToBuffer ==
  (/\ Trimmed(run) /\ run.transient_start # -1
   /\ \/ FadeInCondition(run.start_trim, run.transient_start) /\ FramesToFade(run) < fade_duration
      \/ FadeOutCondition(run.end_trim, run.raw) /\ FramesToFade(run) < fade_out_duration) =>
    /\ run.outcome = "saved"
    /\ FadeInCondition(run.start_trim, run.transient_start) =>
         run.final_audio.fin = MinOf(fade_duration, FramesToFade(run))
    /\ FadeOutCondition(run.end_trim, run.raw) =>
         run.final_audio.fout = MinOf(fade_out_duration, FramesToFade(run))

\* C14: when the output folder does not exist as the writer stage runs, the
\* writer creates it and the recording is written into it.
C14_WriterCreatesFolder ==
  [][ (pc = "saving" /\ ~folder_exists /\ run'.stage \in { "listdir", "write" }) =>
        (folder_exists' /\ run'.outcome = "saved" /\ run'.filename \in files') ]_vars

\* C15: for every buffer with at least one non-zero sample the level gate does
\* not report no signal and the pipeline goes on to the silence trimmer.
C15_GateRejectsOnlyDigitalSilence ==
  (pc # "save" /\ ~AllZero(Captured)) => (run.outcome # "no_signal" /\ Trimmed(run))

\* C16: the offsets trim_silence_int32 returns satisfy
\* 0 <= start_offset <= end_offset <= frame_count, and the returned buffer has
\* end_offset - start_offset frames, at least 1.
C16_TrimOffsetsInRange ==
  /\ 0 <= trim_silence_int32(Captured).start_trim
  /\ trim_silence_int32(Captured).start_trim <= trim_silence_int32(Captured).end_trim
  /\ trim_silence_int32(Captured).end_trim <= NumFrames(Captured)
  /\ NumFrames(trim_silence_int32(Captured).audio)
       = trim_silence_int32(Captured).end_trim - trim_silence_int32(Captured).start_trim
  /\ NumFrames(trim_silence_int32(Captured).audio) >= 1
  /\ Trimmed(run) =>
       /\ run.start_trim = trim_silence_int32(Captured).start_trim
       /\ run.end_trim = trim_silence_int32(Captured).end_trim

C16_Witness ==
  /\ run.outcome = "saved"
  /\ run.start_trim > 0
  /\ run.end_trim < NumFrames(run.raw)
  /\ run.end_trim - run.start_trim < NumFrames(run.raw) - min_silence_samples

\* C17: find_first_transient returns the index of the first frame of the
\* trimmed buffer above the -20 dBFS level on channel 0, 0 when there is none,
\* and the final buffer starts that many frames into the trimmed buffer.
C17_TransientIsFirstFrameAboveLevel ==
  (Trimmed(run) /\ run.transient_start # -1) =>
    /\ run.transient_start = FirstTransientFrame(trim_silence_int32(run.raw).audio)
    /\ run.outcome = "saved" =>
         NumFrames(run.final_audio.runs)
           = NumFrames(trim_silence_int32(run.raw).audio)
               - FirstTransientFrame(trim_silence_int32(run.raw).audio)

\* C18: save_audio_file is invoked at most once for a recording session,
\* whatever stop_recording, quit_app and the cleanup_on_exit calls of the exit
\* do, and once it has been invoked and stop_recording has returned the
\* captured chunks are gone.
C18_SavedAtMostOnce ==
  /\ saves <= 1
  /\ (saves >= 1 /\ pc = "idle") => audio_data = << >>

C18_Witness ==
  /\ app = "exited"
  /\ saves = 1
  /\ run.outcome = "no_signal"

\* C19: audio_data is emptied only when it is empty already or when
\* save_audio_file has been invoked on its contents, and the application never
\* exits with chunks the pipeline has not been handed.
C19_ChunksReachThePipeline ==
  [][ /\ (audio_data # << >> /\ audio_data' = << >>) => saves' = saves + 1
      /\ app' = "exited" => audio_data' = << >> ]_vars

\* C20: no stage changes a sample of the buffer np.concatenate produced
\* before save_audio_file returns.
C20_RawBufferUnchanged ==
  run.raw # << >> => run.audio_array = Plain(run.raw)

----------------------------------------------------------------------------
(* Claims about the stages together *)

\* the silent frames after the last non-silent frame
TrailingSilentFrames(a) == NumFrames(a) - RegionEnd(a)

\* C22: a buffer that passes the level gate and has no frame at or above the
\* silence threshold does not make the pipeline fail: a file is written, with
\* as many frames as the raw buffer.
C22_SilentBufferStillWritten ==
  (pc # "save" /\ run.outcome # "no_signal" /\ AllBelowThreshold(Captured)) =>
    /\ run.outcome = "saved"
    /\ NumFrames(run.final_audio.runs) = NumFrames(Captured)

\* C23: trim_silence_int32 classifies a frame as silent iff every channel's
\* absolute sample value is below the threshold, for every int32 sample value,
\* -2^31 included.
C23_SilentIffBelowThreshold ==
  \A k \in 1..Len(Captured) : is_silent(Captured[k].f) <=> BelowThreshold(Captured[k].f)

\* C24: the written buffer has end_offset - start_offset - transient_offset
\* frames of the raw buffer's channel count: it is trimmed_buffer[transient_offset:]
\* and no fade changes the frame count or the channel count.
C24_WrittenFrameCount ==
  run.outcome = "saved" =>
    /\ NumFrames(run.final_audio.runs) = run.end_trim - run.start_trim - run.transient_start
    /\ Canon(run.final_audio.runs)
         = Canon(Slice(Slice(run.raw, run.start_trim, run.end_trim),
                       run.transient_start, run.end_trim - run.start_trim))
    /\ \A k \in 1..Len(run.final_audio.runs) : Len(run.final_audio.runs[k].f) = channels

C24_Witness ==
  /\ run.outcome = "saved"
  /\ run.fade_in /\ run.fade_out
  /\ NumFrames(run.final_audio.runs) > fade_out_duration

C27_FadeOutIffShortSilentTail ==
  (pc # "save" /\ run.outcome # "no_signal") =>
    (run.fade_out <=>
       \/ AllBelowThreshold(Captured)
       \/ TrailingSilentFrames(Captured) <= min_silence_samples)

\* C28: trim_silence_int32 applied to the buffer trim_silence_int32 returned
\* gives that buffer back, with offsets (0, its length).
C28_TrimIdempotent ==
  /\ Canon(trim_silence_int32(trim_silence_int32(Captured).audio).audio)
       = Canon(trim_silence_int32(Captured).audio)
  /\ trim_silence_int32(trim_silence_int32(Captured).audio).start_trim = 0
  /\ trim_silence_int32(trim_silence_int32(Captured).audio).end_trim
       = NumFrames(trim_silence_int32(Captured).audio)

C28_Witness ==
  /\ pc = "done"
  /\ StartTrim(Captured) > 0
  /\ EndTrim(Captured) < NumFrames(Captured)
  /\ trim_silence_int32(trim_silence_int32(Captured).audio).end_trim
       = EndTrim(Captured) - StartTrim(Captured)

\* C29: in every reachable state recording = True implies that stream is not
\* None.
C29_RecordingHasStream == recording => stream # "None"

C29_Witness == recording /\ stream = "stopped" /\ pc = "idle"

----------------------------------------------------------------------------
(* Claims about the session *)

\* C21: the buffer handed to the pipeline is the concatenation, in arrival
\* order, of exactly the chunks whose callback ran while the recording flag was
\* True: none delivered while the flag was False is in it, none delivered while
\* it was True is lost or out of order.
C21_BufferIsWhatWasHeard ==
  /\ [](pc = "saving" => audio_data = heard)
  /\ [][(pc = "saving" /\ saves' = saves + 1 /\ run'.stage # "concat") =>
          run'.raw = Concatenate(heard)]_vars

C21_Witness ==
  /\ pc = "saving"
  /\ Len(heard) = 2
  /\ heard[1] # heard[2]
  /\ audio_data = heard

\* C30: the user's devices are always restored: every completed stop_recording
\* leaves the system's input and output devices as they were before the first
\* start attempt, and previous_input_device / previous_output_device never
\* hold the loopback devices.
C30_DevicesRestored ==
  /\ [](/\ previous_input_device # LoopbackInputDevice
        /\ previous_output_device # LoopbackOutputDevice)
  /\ [][(pc \in { "stopping", "saving" } /\ pc' = "idle") =>
          /\ current_input_device' = UserInputDevice
          /\ current_output_device' = UserOutputDevice]_vars

----------------------------------------------------------------------------
(* Claims about sample values *)

\* out is x made no larger, and not of the opposite sign
Attenuated(x, out) == IF x >= 0 THEN 0 <= out /\ out <= x ELSE x <= out /\ out <= 0

\* C25: a fade only attenuates: the sample written for a frame inside a fade
\* region is no larger in magnitude than the input sample and never of the
\* opposite sign, for every int32 value, full scale included.  Stated for the
\* frame where the fade-out starts, when the fade-in has not touched it.
C25_FadeOnlyAttenuates ==
  (run.outcome = "saved" /\ run.fade_out
     /\ FadeOutStart(run.final_audio) >= run.final_audio.fin) =>
    \A c \in 1..channels :
      \A out \in FadedAtRampOne(FrameAt(run.final_audio.runs, FadeOutStart(run.final_audio))[c]) :
        Attenuated(FrameAt(run.final_audio.runs, FadeOutStart(run.final_audio))[c], out)

====
